---------------------------- MODULE Spec2Model ----------------------------
(***************************************************************************)
(* Wave planning of migration_planning/scripts/plan_waves.py: the Wave     *)
(* Distributor (clusters_to_waves), the Constraint Repair Engine, the      *)
(* Sanitizer, the Equalizer (all of enforce_constraints) and the Validator *)
(* (validate_waves), as the script runs them for one clustering variant.   *)
(*                                                                         *)
(* Application instance ids are strings, so that the suffix tests of the   *)
(* code (str.endswith) are computed on the characters.  Wave indices are   *)
(* 0-based as in the code; wave i of a list is element i+1 of a sequence.  *)
(***************************************************************************)
EXTENDS Integers, Sequences, FiniteSets, TLC

VARIABLES
    apps,           \* the application table (apps.csv), a sequence of rows
    deps,           \* the dependency table (dependencies.csv), a sequence of rows
    target_waves,   \* TARGET_WAVES_PER_ENV, passed as target_waves everywhere
    waves,          \* the wave assignment: [nonprod |-> list of waves, prod |-> ...]
    pc,             \* position of the script
    ncall,          \* which call of enforce_constraints is running (1: line 348, 2: line 366)
    changed,        \* enforce_constraints: changed
    iters,          \* enforce_constraints: iters
    idxmap,         \* the wave-index map built at the start of the current pass
    bi,             \* index of the next base application of the rule 1 loop
    di,             \* index of the next row of the dependency loop
    changed_local,  \* fix_nonprod_prod_order: changed_local
    it,             \* fix_nonprod_prod_order: it
    pre,            \* the assignment as it was when the current pass or stage began
    waves_csv,      \* what line 360 wrote to waves.csv (the first call's result)
    issues,         \* validate_waves: issues
    stats,          \* validate_waves: stats
    issues2,        \* issues of a second validate_waves call on the same assignment
    stats2,         \* stats of that second call
    cw              \* a clusters_to_waves call on its own: arguments and result

vars == <<apps, deps, target_waves, waves, pc, ncall, changed, iters, idxmap, bi, di, changed_local, it, pre, waves_csv, issues, stats, issues2, stats2, cw>>

---------------------------------------------------------------------------
(* Bounds of the model *)

MaxBases == 2

MaxDeps == 1

MaxWaves == 3

MaxMissing == 1

MaxTotal == 42

MaxMiddleN == 64

MaxDistBases == 3

MaxMembers == 4

MaxProdOnly == 3

MaxProdOnlyDeps == 2

(* Program constants *)

TARGET_WAVES_PER_ENV == 8

MIN_WAVE == 15

MAX_WAVE == 25

MaxIters == 40

MaxIt == 40

NOT_FOUND == 999

ENVS == <<"nonprod", "prod">>

---------------------------------------------------------------------------
(* Python primitives *)

EndsWith(s, suffix) == Len(s) >= Len(suffix) /\ SubSeq(s, Len(s) - Len(suffix) + 1, Len(s)) = suffix

Contains(list, x) == \E k \in 1..Len(list) : list[k] = x

ListRemove(list, x) ==
    LET k == CHOOSE k \in 1..Len(list) : list[k] = x /\ \A j \in 1..(k-1) : list[j] # x
    IN  SubSeq(list, 1, k-1) \o SubSeq(list, k+1, Len(list))

Slice(list, from, to) == SubSeq(list, from + 1, IF to < Len(list) THEN to ELSE Len(list))

RECURSIVE Flatten(_)
Flatten(lists) == IF lists = <<>> THEN <<>> ELSE Head(lists) \o Flatten(Tail(lists))

RECURSIVE MinOf(_)
MinOf(list) == IF Len(list) = 1 THEN list[1] ELSE LET m == MinOf(Tail(list)) IN IF list[1] <= m THEN list[1] ELSE m

Max2(a, b) == IF a >= b THEN a ELSE b

Min2(a, b) == IF a <= b THEN a ELSE b

RECURSIVE EmptyWaves(_)
EmptyWaves(n) == IF n <= 0 THEN <<>> ELSE Append(EmptyWaves(n - 1), <<>>)

---------------------------------------------------------------------------
(* The application table *)

BCPScores == {5, 7, 8, 9}

\* The generator scores every instance on its own, so the two instances of a
\* base application may differ: <<prod score, nonprod score>>, equal, or the
\* lowest score against the highest.
ScorePairs == {x \in BCPScores \X BCPScores : x[1] = x[2] \/ {x[1], x[2]} = {5, 9}}

Weights == {5, 8}

BaseId(i) == (IF i < 10 THEN "APP_00" ELSE IF i < 100 THEN "APP_0" ELSE "APP_") \o ToString(i)

InstanceId(i, env) == BaseId(i) \o "-" \o env

AppRow(i, env, bcp) == [app_instance_id |-> InstanceId(i, env), base_app_id |-> BaseId(i), env |-> env, BCP_score |-> bcp]

RECURSIVE AppTable(_, _)
AppTable(k, bcp) ==
    IF k = 0 THEN <<>>
    ELSE AppTable(k - 1, bcp) \o <<AppRow(k, "prod", bcp[k][1]), AppRow(k, "nonprod", bcp[k][2])>>

AppTables == UNION {{AppTable(k, bcp) : bcp \in [1..k -> ScorePairs]} : k \in 0..MaxBases}

AppIds(table) == [r \in 1..Len(table) |-> table[r].app_instance_id]

apps_list == {apps[r].app_instance_id : r \in 1..Len(apps)}

BCPOf(a) == LET r == CHOOSE r \in 1..Len(apps) : apps[r].app_instance_id = a IN apps[r].BCP_score


base_ids == {apps[r].base_app_id : r \in 1..Len(apps)}

BaseKey(b) == CHOOSE i \in 1..Len(apps) : BaseId(i) = b

RECURSIVE SortedBases(_)
SortedBases(S) ==
    IF S = {} THEN <<>>
    ELSE LET b == CHOOSE b \in S : \A c \in S : BaseKey(b) <= BaseKey(c)
         IN  <<b>> \o SortedBases(S \ {b})

InstancesOf(base) == AppIds(SelectSeq(apps, LAMBDA row : row.base_app_id = base))

base_groups == LET order == SortedBases(base_ids) IN [g \in 1..Len(order) |-> [base |-> order[g], instances |-> InstancesOf(order[g])]]

\* A variant that tests the bare environment name, the way rule 1 does: it
\* takes "APP_001-nonprod" for a prod instance. C1 must not hold of it.
all_env_apps_bare_suffix(env) == SelectSeq(AppIds(apps), LAMBDA a : EndsWith(a, env))

all_env_apps(env) == SelectSeq(AppIds(apps), LAMBDA a : EndsWith(a, "-" \o env))

---------------------------------------------------------------------------
(* The dependency table *)

\* Nodes of the community graph that are not rows of the application table: a
\* server, and an application instance the table does not list.
SERVER == "SRV-P001"

UNLISTED == "APP_999-prod"

DepRow(src, tgt, wt) == [source |-> src, target |-> tgt, source_type |-> "application", weight |-> wt]

SameEnvPairs(table) == {p \in (1..Len(table)) \X (1..Len(table)) : p[1] # p[2] /\ table[p[1]].env = table[p[2]].env}

AppDepRows(table) == {DepRow(table[p[1]].app_instance_id, table[p[2]].app_instance_id, wt) : p \in SameEnvPairs(table), wt \in Weights}

RECURSIVE SeqsUpTo(_, _)
SeqsUpTo(S, n) == IF n = 0 THEN {<<>>} ELSE LET shorter == SeqsUpTo(S, n - 1) IN shorter \cup {Append(q, x) : q \in {q \in shorter : Len(q) = n - 1}, x \in S}

DepTables(table) == SeqsUpTo(AppDepRows(table), MaxDeps)

app_deps == SelectSeq(deps, LAMBDA r : r.source_type = "application")

---------------------------------------------------------------------------
(* Wave Distributor: clusters_to_waves and build_waves_for_algo *)

\* A variant without the membership test of line 38: any id with the
\* environment's suffix is kept, listed in the table or not. C9 must not hold
\* of it.
members_env_any_id(members, env) == SelectSeq(members, LAMBDA m : EndsWith(m, "-" \o env))

members_env(members, env) == SelectSeq(members, LAMBDA m : m \in apps_list /\ EndsWith(m, "-" \o env))

\* A variant whose comparison is off by one: one wave too many gets the
\* larger size. C3 must not hold of it.
Sizes_inclusive(total_apps, n) ==
    LET base == total_apps \div n
        rem == total_apps % n
    IN  [i \in 1..n |-> IF i - 1 <= rem THEN base + 1 ELSE base]

Sizes(total_apps, n) ==
    LET base == total_apps \div n
        rem == total_apps % n
    IN  [i \in 1..n |-> IF i - 1 < rem THEN base + 1 ELSE base]

RECURSIVE FillWaves(_, _, _, _)
FillWaves(app_list, sizes, i, idx) ==
    IF i > Len(sizes) THEN [waves |-> <<>>, idx |-> idx]
    ELSE LET sz == sizes[i]
             rest == FillWaves(app_list, sizes, i + 1, IF sz > 0 THEN idx + sz ELSE idx)
         IN  [waves |-> <<IF sz > 0 THEN Slice(app_list, idx, idx + sz) ELSE <<>> >> \o rest.waves,
              idx |-> rest.idx]

clusters_to_waves(clusters, env, n) ==
    LET ordered == SelectSeq([c \in 1..Len(clusters) |-> members_env(clusters[c], env)],
                             LAMBDA ms : ms # <<>>)
        app_list == Flatten(ordered)
        total_apps == Len(app_list)
        filled == FillWaves(app_list, Sizes(total_apps, n), 1, 0)
    IN  IF total_apps = 0 THEN EmptyWaves(n)
        ELSE IF filled.idx < total_apps
             THEN [filled.waves EXCEPT ![n] = @ \o Slice(app_list, filled.idx, total_apps)]
             ELSE filled.waves

build_waves_for_algo(communities) ==
    [nonprod |-> clusters_to_waves(communities, "nonprod", target_waves),
     prod |-> clusters_to_waves(communities, "prod", target_waves)]

---------------------------------------------------------------------------
(* Constraint Repair Engine: the main loop of enforce_constraints *)

\* The dictionary is filled wave by wave, nonprod first and then prod, and a
\* later assignment to the same key replaces the earlier one: an id maps to the
\* last wave that lists it, in prod when any prod wave lists it.
LastWave(wlist, a) == CHOOSE i \in 0..(Len(wlist) - 1) :
    /\ Contains(wlist[i + 1], a)
    /\ \A j \in (i + 1)..(Len(wlist) - 1) : ~Contains(wlist[j + 1], a)

ListedIn(wlist) == UNION {{wlist[i][k] : k \in 1..Len(wlist[i])} : i \in 1..Len(wlist)}

wave_index_map(ws) ==
    [a \in ListedIn(ws["nonprod"]) \cup ListedIn(ws["prod"]) |->
        IF a \in ListedIn(ws["prod"]) THEN <<"prod", LastWave(ws["prod"], a)>>
        ELSE <<"nonprod", LastWave(ws["nonprod"], a)>>]

IdxOf(m, a) == IF a \in DOMAIN m THEN m[a][2] ELSE NOT_FOUND

MinIdx(m, list) == MinOf([k \in 1..Len(list) |-> IdxOf(m, list[k])])

rule1_nonprod(instances) == SelectSeq(instances, LAMBDA i : EndsWith(i, "nonprod"))

\* A variant that tests the suffix "-prod", which only prod ids have. C21 must
\* not hold of it.
rule1_prod_own_env(instances) == SelectSeq(instances, LAMBDA i : EndsWith(i, "-prod"))

rule1_prod(instances) == SelectSeq(instances, LAMBDA i : EndsWith(i, "prod"))

RemoveIfPresent(ws, env, idx, a) ==
    IF Contains(ws[env][idx + 1], a) THEN [ws EXCEPT ![env][idx + 1] = ListRemove(@, a)] ELSE ws

AppendTo(ws, env, idx, a) == [ws EXCEPT ![env][idx + 1] = Append(@, a)]

RECURSIVE Relocate(_, _, _, _, _, _)
Relocate(ws, m, list, env, target_idx, k) ==
    IF k > Len(list) THEN [waves |-> ws, changed |-> FALSE]
    ELSE LET a == list[k]
             moves == a \in DOMAIN m /\ m[a][2] # target_idx
             moved == AppendTo(RemoveIfPresent(ws, env, m[a][2], a), env, target_idx, a)
             rest == Relocate(IF moves THEN moved ELSE ws, m, list, env, target_idx, k + 1)
         IN  [waves |-> rest.waves, changed |-> moves \/ rest.changed]

Rule1(ws, m, instances) ==
    LET nonprod == rule1_nonprod(instances)
        prod == rule1_prod(instances)
        np_idx == MinIdx(m, nonprod)
        p_idx == MinIdx(m, prod)
    IN  IF nonprod # <<>> /\ prod # <<>> /\ p_idx <= np_idx
        THEN IF np_idx < target_waves - 1
             THEN Relocate(ws, m, prod, "prod", np_idx + 1, 1)
             ELSE Relocate(ws, m, nonprod, "nonprod", Max2(np_idx - 1, 0), 1)
        ELSE [waves |-> ws, changed |-> FALSE]

\* A variant without the append of lines 206-207: the target is removed from
\* its recorded wave and put nowhere. C22 must not hold of it.
Colocate_remove_only(ws, s_env, s_idx, t_env, t_idx, tgt) ==
    [waves |-> RemoveIfPresent(ws, t_env, t_idx, tgt), changed |-> FALSE]

Colocate(ws, s_env, s_idx, t_env, t_idx, tgt) ==
    LET removed == RemoveIfPresent(ws, t_env, t_idx, tgt)
    IN  IF ~Contains(removed[s_env][s_idx + 1], tgt)
        THEN [waves |-> AppendTo(removed, s_env, s_idx, tgt), changed |-> TRUE]
        ELSE [waves |-> removed, changed |-> FALSE]

DepRules(ws, m, r) ==
    LET src == r.source
        tgt == r.target
        wt == r.weight
        s_env == m[src][1]
        s_idx == m[src][2]
        t_env == m[tgt][1]
        t_idx == m[tgt][2]
        bcp_src == BCPOf(src)
        same == [waves |-> ws, changed |-> FALSE]
        high == IF bcp_src >= 8 /\ s_idx # t_idx
                THEN Colocate(ws, s_env, s_idx, t_env, t_idx, tgt)
                ELSE same
        preferred == IF s_idx >= target_waves THEN target_waves - 1 ELSE s_idx
        critical == IF bcp_src >= 7 /\ wt > 7 /\ ~(t_idx = s_idx \/ t_idx = s_idx - 1)
                    THEN Colocate(high.waves, s_env, preferred, t_env, t_idx, tgt)
                    ELSE [waves |-> high.waves, changed |-> FALSE]
    IN  IF src \notin DOMAIN m \/ tgt \notin DOMAIN m THEN same
        ELSE IF s_env # t_env THEN same
        ELSE [waves |-> critical.waves, changed |-> high.changed \/ critical.changed]

Middle(n) ==
    LET low == n \div 4
        high == ((3 * n + 3) \div 4) - 1
    IN  (low + high) \div 2

\* A variant that relocates out of the first wave only. C8 must not hold of
\* it: a mission-critical application stays in the last wave.
RECURSIVE PlaceWave_first_only(_, _, _, _, _, _)
PlaceWave_first_only(ws, env, i, snapshot, k, middle) ==
    IF k > Len(snapshot) THEN [waves |-> ws, changed |-> FALSE]
    ELSE LET a == snapshot[k]
             moves == a \in apps_list /\ BCPOf(a) >= 9 /\ i = 0
             moved == AppendTo([ws EXCEPT ![env][i + 1] = ListRemove(@, a)], env, middle, a)
             rest == PlaceWave_first_only(IF moves THEN moved ELSE ws, env, i, snapshot, k + 1, middle)
         IN  [waves |-> rest.waves, changed |-> moves \/ rest.changed]

RECURSIVE PlaceWave(_, _, _, _, _, _)
PlaceWave(ws, env, i, snapshot, k, middle) ==
    IF k > Len(snapshot) THEN [waves |-> ws, changed |-> FALSE]
    ELSE LET a == snapshot[k]
             n == Len(ws[env])
             moves == a \in apps_list /\ BCPOf(a) >= 9 /\ (i = 0 \/ i = n - 1)
             moved == AppendTo([ws EXCEPT ![env][i + 1] = ListRemove(@, a)], env, middle, a)
             rest == PlaceWave(IF moves THEN moved ELSE ws, env, i, snapshot, k + 1, middle)
         IN  [waves |-> rest.waves, changed |-> moves \/ rest.changed]

RECURSIVE PlaceEnv(_, _, _)
PlaceEnv(ws, env, i) ==
    IF i >= Len(ws[env]) THEN [waves |-> ws, changed |-> FALSE]
    ELSE LET edge == i = 0 \/ i = Len(ws[env]) - 1
             here == IF edge THEN PlaceWave(ws, env, i, ws[env][i + 1], 1, Middle(Len(ws[env])))
                     ELSE [waves |-> ws, changed |-> FALSE]
             rest == PlaceEnv(here.waves, env, i + 1)
         IN  [waves |-> rest.waves, changed |-> here.changed \/ rest.changed]

Rule2Env(ws, env) == IF Len(ws[env]) <= 2 THEN [waves |-> ws, changed |-> FALSE] ELSE PlaceEnv(ws, env, 0)

Rule2(ws) ==
    LET np == Rule2Env(ws, "nonprod")
        p == Rule2Env(np.waves, "prod")
    IN  [waves |-> p.waves, changed |-> np.changed \/ p.changed]

RECURSIVE MergeExtras(_, _)
MergeExtras(wlist, n) ==
    IF Len(wlist) <= n THEN wlist
    ELSE LET extra == wlist[Len(wlist)]
             popped == SubSeq(wlist, 1, Len(wlist) - 1)
         IN  MergeExtras([popped EXCEPT ![n] = @ \o extra], n)

PadWaves(wlist, n) == IF Len(wlist) < n THEN wlist \o EmptyWaves(n - Len(wlist)) ELSE wlist

EnsureSlots(ws) ==
    [nonprod |-> MergeExtras(PadWaves(ws["nonprod"], target_waves), target_waves),
     prod |-> MergeExtras(PadWaves(ws["prod"], target_waves), target_waves)]

---------------------------------------------------------------------------
(* Secondary sequencing correction: fix_nonprod_prod_order *)

FixOrder(ws, m, instances) ==
    LET nonprod == rule1_nonprod(instances)
        prod == rule1_prod(instances)
        np_idx == MinIdx(m, nonprod)
        p_idx == MinIdx(m, prod)
    IN  IF nonprod # <<>> /\ prod # <<>> /\ p_idx <= np_idx
        THEN IF np_idx > 0
             THEN Relocate(ws, m, nonprod, "nonprod", Max2(np_idx - 1, 0), 1)
             ELSE IF p_idx < target_waves - 1
                  THEN Relocate(ws, m, prod, "prod", Min2(p_idx + 1, target_waves - 1), 1)
                  ELSE [waves |-> ws, changed |-> FALSE]
        ELSE [waves |-> ws, changed |-> FALSE]

---------------------------------------------------------------------------
(* Sanitizer: sanitize_waves *)

\* A variant of the inner loop without the `seen` test of lines 304-305: every
\* id with the environment's suffix is kept, as often as it is listed. C10
\* must not hold of it.
KeepApps_ignoring_seen(w, env, seen) ==
    LET newlist == SelectSeq(w, LAMBDA a : EndsWith(a, "-" \o env))
    IN  [newlist |-> newlist, seen |-> seen \cup {newlist[n] : n \in 1..Len(newlist)}]

\* The inner loop over one wave: an id is kept when it carries the "-<env>"
\* suffix and is not in `seen`, which grows with every id kept; so an id is
\* kept at its first position in the wave, when `seen` does not hold it yet.
KeepApps(w, env, seen) ==
    LET keep(k) == /\ EndsWith(w[k], "-" \o env)
                   /\ w[k] \notin seen
                   /\ \A j \in 1..(k - 1) : w[j] # w[k]
        kept == SelectSeq([k \in 1..Len(w) |-> k], keep)
    IN  [newlist |-> SubSeq([n \in 1..Len(kept) |-> w[kept[n]]], 1, Len(kept)),
         seen |-> seen \cup {w[kept[n]] : n \in 1..Len(kept)}]

RECURSIVE CleanWaves(_, _, _, _)
CleanWaves(wlist, env, seen, i) ==
    IF i > Len(wlist) THEN [wlist |-> wlist, seen |-> seen]
    ELSE LET kept == KeepApps(wlist[i], env, seen)
         IN  CleanWaves([wlist EXCEPT ![i] = kept.newlist], env, kept.seen, i + 1)

RECURSIVE RoundRobin(_, _, _)
RoundRobin(wlist, missing, j) ==
    IF j >= Len(missing) THEN wlist
    ELSE RoundRobin([wlist EXCEPT ![(j % Len(wlist)) + 1] = Append(@, missing[j + 1])], missing, j + 1)

Redistribute(wlist, env, seen) ==
    LET missing == SelectSeq(all_env_apps(env), LAMBDA a : a \notin seen)
        slots == IF Len(wlist) = 0 THEN EmptyWaves(target_waves) ELSE wlist
    IN  RoundRobin(slots, missing, 0)

sanitize_waves(ws) ==
    LET np == CleanWaves(PadWaves(ws["nonprod"], target_waves), "nonprod", {}, 1)
        p == CleanWaves(PadWaves(ws["prod"], target_waves), "prod", np.seen, 1)
        np_missing == SelectSeq(all_env_apps("nonprod"), LAMBDA a : a \notin p.seen)
    IN  [nonprod |-> Redistribute(np.wlist, "nonprod", p.seen),
         prod |-> Redistribute(p.wlist, "prod", p.seen \cup {np_missing[k] : k \in 1..Len(np_missing)})]

---------------------------------------------------------------------------
(* Equalizer: equalize_waves *)

\* A variant of the sort that is not stable: an application goes before the
\* applications of equal score already placed. C11 must not hold of it.
RECURSIVE InsertByScore_before_equals(_, _)
InsertByScore_before_equals(sorted, a) ==
    IF sorted = <<>> THEN <<a>>
    ELSE IF BCPOf(Head(sorted)) > BCPOf(a) THEN <<Head(sorted)>> \o InsertByScore_before_equals(Tail(sorted), a)
    ELSE <<a>> \o sorted

RECURSIVE InsertByScore(_, _)
InsertByScore(sorted, a) ==
    IF sorted = <<>> THEN <<a>>
    ELSE IF BCPOf(Head(sorted)) >= BCPOf(a) THEN <<Head(sorted)>> \o InsertByScore(Tail(sorted), a)
    ELSE <<a>> \o sorted

RECURSIVE SortByScore(_, _)
SortByScore(list, k) == IF k = 0 THEN <<>> ELSE InsertByScore(SortByScore(list, k - 1), list[k])

\* A variant that appends a slice only when it is not empty. C2 must not hold
\* of it: with fewer applications than waves it returns fewer waves.
RECURSIVE SliceSizes_skip_empty(_, _, _, _)
SliceSizes_skip_empty(list, sizes, i, idx) ==
    IF i > Len(sizes) THEN <<>>
    ELSE (IF sizes[i] = 0 THEN <<>> ELSE <<Slice(list, idx, idx + sizes[i])>>)
         \o SliceSizes_skip_empty(list, sizes, i + 1, idx + sizes[i])

RECURSIVE SliceSizes(_, _, _, _)
SliceSizes(list, sizes, i, idx) ==
    IF i > Len(sizes) THEN <<>>
    ELSE <<Slice(list, idx, idx + sizes[i])>> \o SliceSizes(list, sizes, i + 1, idx + sizes[i])

\* A variant that takes the environment's applications from the assignment it
\* is given instead of the application table. C4 must not hold of it.
EqualizeEnv_from_waves(env) ==
    LET listed == Flatten(waves[env])
        sorted == SortByScore(listed, Len(listed))
        total == Len(sorted)
    IN  IF total = 0 THEN EmptyWaves(target_waves)
        ELSE SliceSizes(sorted, Sizes(total, target_waves), 1, 0)

EqualizeEnv(env) ==
    LET sorted == SortByScore(all_env_apps(env), Len(all_env_apps(env)))
        total == Len(sorted)
    IN  IF total = 0 THEN EmptyWaves(target_waves)
        ELSE SliceSizes(sorted, Sizes(total, target_waves), 1, 0)

equalize_waves(ws) == [nonprod |-> EqualizeEnv("nonprod"), prod |-> EqualizeEnv("prod")]

---------------------------------------------------------------------------
(* Constraint Validator: validate_waves *)

ALGORITHM == "louvain"

CountIssues(ws) ==
    Flatten([e \in 1..Len(ENVS) |->
        IF Len(ws[ENVS[e]]) # target_waves
        THEN <<[type |-> "wave_count_mismatch", algorithm |-> ALGORITHM, env |-> ENVS[e],
                expected |-> target_waves, actual |-> Len(ws[ENVS[e]])]>>
        ELSE <<>>])

WaveStats(ws) ==
    Flatten([e \in 1..Len(ENVS) |-> [i \in 1..Len(ws[ENVS[e]]) |->
        [algorithm |-> ALGORITHM, env |-> ENVS[e], wave_index |-> i - 1, num_apps |-> Len(ws[ENVS[e]][i])]]])

SizeIssues(ws) ==
    Flatten([e \in 1..Len(ENVS) |-> Flatten([i \in 1..Len(ws[ENVS[e]]) |->
        LET w == ws[ENVS[e]][i]
        IN  IF Len(w) < MIN_WAVE \/ Len(w) > MAX_WAVE
            THEN <<[type |-> "wave_size_out_of_bounds", algorithm |-> ALGORITHM, env |-> ENVS[e],
                    wave_index |-> i - 1, num_apps |-> Len(w), preferred_range |-> <<MIN_WAVE, MAX_WAVE>>]>>
            ELSE <<>>])])

ExclusivityIssues(ws) ==
    Flatten([e \in 1..Len(ENVS) |-> Flatten([i \in 1..Len(ws[ENVS[e]]) |->
        LET w == ws[ENVS[e]][i]
        IN  Flatten([k \in 1..Len(w) |->
                IF ~EndsWith(w[k], "-" \o ENVS[e])
                THEN <<[type |-> "env_exclusivity_violation", algorithm |-> ALGORITHM, env |-> ENVS[e],
                        wave_index |-> i - 1, app |-> w[k]]>>
                ELSE <<>>])])])

\* A variant whose ordering test is strict: equal indices raise no
\* nonprod_not_before_prod issue. C20 must not hold of it.
OrderIssues_strict(m) ==
    Flatten([g \in 1..Len(base_groups) |->
        LET instances == base_groups[g].instances
            nonprod == SelectSeq(instances, LAMBDA i : EndsWith(i, "-nonprod"))
            prod == SelectSeq(instances, LAMBDA i : EndsWith(i, "-prod"))
            np_idx == MinIdx(m, nonprod)
            p_idx == MinIdx(m, prod)
        IN  IF nonprod # <<>> /\ prod # <<>>
            THEN (IF p_idx < np_idx
                  THEN <<[type |-> "nonprod_not_before_prod", algorithm |-> ALGORITHM,
                          base_app |-> base_groups[g].base, nonprod_wave |-> np_idx, prod_wave |-> p_idx]>>
                  ELSE <<>>)
                 \o
                 (IF p_idx - np_idx < 1
                  THEN <<[type |-> "nonprod_production_gap_too_small", algorithm |-> ALGORITHM,
                          base_app |-> base_groups[g].base, gap |-> p_idx - np_idx]>>
                  ELSE <<>>)
            ELSE <<>>])

OrderIssues(m) ==
    Flatten([g \in 1..Len(base_groups) |->
        LET instances == base_groups[g].instances
            nonprod == SelectSeq(instances, LAMBDA i : EndsWith(i, "-nonprod"))
            prod == SelectSeq(instances, LAMBDA i : EndsWith(i, "-prod"))
            np_idx == MinIdx(m, nonprod)
            p_idx == MinIdx(m, prod)
        IN  IF nonprod # <<>> /\ prod # <<>>
            THEN (IF p_idx <= np_idx
                  THEN <<[type |-> "nonprod_not_before_prod", algorithm |-> ALGORITHM,
                          base_app |-> base_groups[g].base, nonprod_wave |-> np_idx, prod_wave |-> p_idx]>>
                  ELSE <<>>)
                 \o
                 (IF p_idx - np_idx < 1
                  THEN <<[type |-> "nonprod_production_gap_too_small", algorithm |-> ALGORITHM,
                          base_app |-> base_groups[g].base, gap |-> p_idx - np_idx]>>
                  ELSE <<>>)
            ELSE <<>>])

DependencyIssues(m) ==
    Flatten([d \in 1..Len(app_deps) |->
        LET src == app_deps[d].source
            tgt == app_deps[d].target
            wt == app_deps[d].weight
            s_env == m[src][1]
            s_idx == m[src][2]
            t_env == m[tgt][1]
            t_idx == m[tgt][2]
            bcp_src == BCPOf(src)
        IN  IF src \in DOMAIN m /\ tgt \in DOMAIN m
            THEN IF s_env # t_env
                 THEN <<[type |-> "cross_env_dependency", algorithm |-> ALGORITHM, source |-> src, target |-> tgt]>>
                 ELSE (IF bcp_src >= 8 /\ s_idx # t_idx
                       THEN <<[type |-> "cross_wave_high_bcp", algorithm |-> ALGORITHM, source |-> src,
                               target |-> tgt, s_idx |-> s_idx, t_idx |-> t_idx]>>
                       ELSE <<>>)
                      \o
                      (IF bcp_src >= 7 /\ wt > 7 /\ ~(t_idx = s_idx \/ t_idx = s_idx - 1)
                       THEN <<[type |-> "critical_not_co_migrate", algorithm |-> ALGORITHM, source |-> src,
                               target |-> tgt, weight |-> wt, s_idx |-> s_idx, t_idx |-> t_idx]>>
                       ELSE <<>>)
            ELSE <<>>])

EdgeWaveIssues(ws) ==
    Flatten([e \in 1..Len(ENVS) |-> Flatten([i \in 1..Len(ws[ENVS[e]]) |->
        LET w == ws[ENVS[e]][i]
            n == Len(ws[ENVS[e]])
        IN  Flatten([k \in 1..Len(w) |->
                IF BCPOf(w[k]) >= 9 /\ (i - 1 = 0 \/ i - 1 = n - 1)
                THEN <<[type |-> "mission_critical_edge_wave", algorithm |-> ALGORITHM, env |-> ENVS[e],
                        wave_index |-> i - 1, app |-> w[k]]>>
                ELSE <<>>])])])

validate_waves(ws) ==
    LET m == wave_index_map(ws)
    IN  [issues |-> CountIssues(ws) \o SizeIssues(ws) \o ExclusivityIssues(ws) \o OrderIssues(m)
                    \o DependencyIssues(m) \o EdgeWaveIssues(ws),
         stats |-> WaveStats(ws)]

---------------------------------------------------------------------------
(* The script: inputs, then one action per step of the pipeline *)

\* Every function takes the number of waves as a parameter and the script
\* passes TARGET_WAVES_PER_ENV everywhere, the validator reading the constant
\* itself (line 79): target_waves is the value of that constant, 8 in the
\* repository and also smaller values here.
WaveCounts == (1..MaxWaves) \cup {TARGET_WAVES_PER_ENV}

DepTablesFor(table, n) == IF n = MaxWaves THEN DepTables(table) ELSE {<<>>}

RECURSIVE Perms(_)
Perms(S) == IF S = {} THEN {<<>>} ELSE UNION {{<<x>> \o q : q \in Perms(S \ {x})} : x \in S}

Orderings(S) == UNION {Perms(T) : T \in {T \in SUBSET S : Cardinality(S \ T) <= MaxMissing}}

Communities(ids) ==
    {<<SubSeq(x[1], 1, x[2]), SubSeq(x[1], x[2] + 1, Len(x[1]))>> :
        x \in {y \in Orderings(ids) \X (0..Cardinality(ids)) : y[2] <= Len(y[1])}}

NoWaves == [nonprod |-> <<>>, prod |-> <<>>]

NoCall == [state |-> "none"]

Init ==
    /\ apps \in AppTables
    /\ target_waves \in WaveCounts
    /\ deps \in DepTablesFor(apps, target_waves)
    /\ waves = NoWaves
    /\ pc = "build"
    /\ ncall = 1
    /\ changed = FALSE
    /\ iters = 0
    /\ idxmap = <<>>
    /\ bi = 0
    /\ di = 0
    /\ changed_local = FALSE
    /\ it = 0
    /\ pre = NoWaves
    /\ waves_csv = NoWaves
    /\ issues = <<>>
    /\ stats = <<>>
    /\ issues2 = <<>>
    /\ stats2 = <<>>
    /\ cw = NoCall

AfterRule1 == IF Len(app_deps) > 0 THEN "deps" ELSE "rule2"

BuildWaves ==
    /\ pc = "build"
    /\ \E communities \in Communities(apps_list) : waves' = build_waves_for_algo(communities)
    /\ pc' = "enforce"
    /\ UNCHANGED <<apps, deps, target_waves, ncall, changed, iters, idxmap, bi, di, changed_local, it, pre, waves_csv, issues, stats, issues2, stats2, cw>>

CallEnforce ==
    /\ pc = "enforce"
    /\ changed' = TRUE
    /\ iters' = 0
    /\ pc' = "loop"
    /\ UNCHANGED <<apps, deps, target_waves, waves, ncall, idxmap, bi, di, changed_local, it, pre, waves_csv, issues, stats, issues2, stats2, cw>>

\* A variant of the loop test that admits one pass more than the cap. C6 must
\* not hold of it.
BeginPass_off_by_one ==
    /\ pc = "loop"
    /\ changed /\ iters <= MaxIters
    /\ changed' = FALSE
    /\ iters' = iters + 1
    /\ idxmap' = wave_index_map(waves)
    /\ pre' = waves
    /\ bi' = 0
    /\ di' = 0
    /\ pc' = IF Len(base_groups) > 0 THEN "rule1" ELSE AfterRule1
    /\ UNCHANGED <<apps, deps, target_waves, waves, ncall, changed_local, it, waves_csv, issues, stats, issues2, stats2, cw>>

BeginPass ==
    /\ pc = "loop"
    /\ changed /\ iters < MaxIters
    /\ changed' = FALSE
    /\ iters' = iters + 1
    /\ idxmap' = wave_index_map(waves)
    /\ pre' = waves
    /\ bi' = 0
    /\ di' = 0
    /\ pc' = IF Len(base_groups) > 0 THEN "rule1" ELSE AfterRule1
    /\ UNCHANGED <<apps, deps, target_waves, waves, ncall, changed_local, it, waves_csv, issues, stats, issues2, stats2, cw>>

Rule1Step ==
    /\ pc = "rule1"
    /\ LET r == Rule1(waves, idxmap, base_groups[bi + 1].instances)
       IN  /\ waves' = r.waves
           /\ changed' = (changed \/ r.changed)
    /\ bi' = bi + 1
    /\ pc' = IF bi + 1 < Len(base_groups) THEN "rule1" ELSE AfterRule1
    /\ UNCHANGED <<apps, deps, target_waves, ncall, iters, idxmap, di, changed_local, it, pre, waves_csv, issues, stats, issues2, stats2, cw>>

DepStep ==
    /\ pc = "deps"
    /\ LET r == DepRules(waves, idxmap, app_deps[di + 1])
       IN  /\ waves' = r.waves
           /\ changed' = (changed \/ r.changed)
    /\ di' = di + 1
    /\ pc' = IF di + 1 < Len(app_deps) THEN "deps" ELSE "rule2"
    /\ UNCHANGED <<apps, deps, target_waves, ncall, iters, idxmap, bi, changed_local, it, pre, waves_csv, issues, stats, issues2, stats2, cw>>

Rule2Step ==
    /\ pc = "rule2"
    /\ LET r == Rule2(waves)
       IN  /\ waves' = r.waves
           /\ changed' = (changed \/ r.changed)
    /\ pc' = "slots"
    /\ UNCHANGED <<apps, deps, target_waves, ncall, iters, idxmap, bi, di, changed_local, it, pre, waves_csv, issues, stats, issues2, stats2, cw>>

EnsureSlotsStep ==
    /\ pc = "slots"
    /\ waves' = EnsureSlots(waves)
    /\ pc' = "loop"
    /\ UNCHANGED <<apps, deps, target_waves, ncall, changed, iters, idxmap, bi, di, changed_local, it, pre, waves_csv, issues, stats, issues2, stats2, cw>>

EndLoop ==
    /\ pc = "loop"
    /\ ~(changed /\ iters < MaxIters)
    /\ changed_local' = TRUE
    /\ it' = 0
    /\ pc' = "fixloop"
    /\ UNCHANGED <<apps, deps, target_waves, waves, ncall, changed, iters, idxmap, bi, di, pre, waves_csv, issues, stats, issues2, stats2, cw>>

FixBegin ==
    /\ pc = "fixloop"
    /\ changed_local /\ it < MaxIt
    /\ changed_local' = FALSE
    /\ it' = it + 1
    /\ idxmap' = wave_index_map(waves)
    /\ pre' = waves
    /\ bi' = 0
    /\ pc' = IF Len(base_groups) > 0 THEN "fix" ELSE "fixloop"
    /\ UNCHANGED <<apps, deps, target_waves, waves, ncall, changed, iters, di, waves_csv, issues, stats, issues2, stats2, cw>>

FixStep ==
    /\ pc = "fix"
    /\ LET r == FixOrder(waves, idxmap, base_groups[bi + 1].instances)
       IN  /\ waves' = r.waves
           /\ changed_local' = (changed_local \/ r.changed)
    /\ bi' = bi + 1
    /\ pc' = IF bi + 1 < Len(base_groups) THEN "fix" ELSE "fixloop"
    /\ UNCHANGED <<apps, deps, target_waves, ncall, changed, iters, idxmap, di, it, pre, waves_csv, issues, stats, issues2, stats2, cw>>

FixEnd ==
    /\ pc = "fixloop"
    /\ ~(changed_local /\ it < MaxIt)
    /\ pre' = waves
    /\ pc' = "sanitize"
    /\ UNCHANGED <<apps, deps, target_waves, waves, ncall, changed, iters, idxmap, bi, di, changed_local, it, waves_csv, issues, stats, issues2, stats2, cw>>

Sanitize ==
    /\ pc = "sanitize"
    /\ waves' = sanitize_waves(waves)
    /\ pc' = "equalize"
    /\ UNCHANGED <<apps, deps, target_waves, ncall, changed, iters, idxmap, bi, di, changed_local, it, pre, waves_csv, issues, stats, issues2, stats2, cw>>

Equalize ==
    /\ pc = "equalize"
    /\ waves' = equalize_waves(waves)
    /\ pc' = "return"
    /\ UNCHANGED <<apps, deps, target_waves, ncall, changed, iters, idxmap, bi, di, changed_local, it, pre, waves_csv, issues, stats, issues2, stats2, cw>>

ReturnFirst ==
    /\ pc = "return"
    /\ ncall = 1
    /\ waves_csv' = waves
    /\ ncall' = 2
    /\ pc' = "enforce"
    /\ changed' = FALSE
    /\ iters' = 0
    /\ idxmap' = <<>>
    /\ bi' = 0
    /\ di' = 0
    /\ changed_local' = FALSE
    /\ it' = 0
    /\ pre' = NoWaves
    /\ UNCHANGED <<apps, deps, target_waves, waves, issues, stats, issues2, stats2, cw>>

ReturnSecond ==
    /\ pc = "return"
    /\ ncall = 2
    /\ pc' = "validate"
    /\ changed' = FALSE
    /\ iters' = 0
    /\ idxmap' = <<>>
    /\ bi' = 0
    /\ di' = 0
    /\ changed_local' = FALSE
    /\ it' = 0
    /\ pre' = NoWaves
    /\ UNCHANGED <<apps, deps, target_waves, waves, ncall, waves_csv, issues, stats, issues2, stats2, cw>>

\* A variant of the validation step that drops the last prod wave after
\* reporting on the assignment. C5 must not hold of it.
Validate_dropping_wave ==
    /\ pc = "validate"
    /\ LET r == validate_waves(waves)
       IN  /\ issues' = r.issues
           /\ stats' = r.stats
    /\ waves' = [waves EXCEPT !["prod"] = SubSeq(@, 1, Len(@) - 1)]
    /\ pc' = "validated"
    /\ UNCHANGED <<apps, deps, target_waves, ncall, changed, iters, idxmap, bi, di, changed_local, it, pre, waves_csv, issues2, stats2, cw>>

Validate ==
    /\ pc = "validate"
    /\ LET r == validate_waves(waves)
       IN  /\ issues' = r.issues
           /\ stats' = r.stats
    /\ pc' = "validated"
    /\ UNCHANGED <<apps, deps, target_waves, waves, ncall, changed, iters, idxmap, bi, di, changed_local, it, pre, waves_csv, issues2, stats2, cw>>

ValidateAgain ==
    /\ pc = "validated"
    /\ LET r == validate_waves(waves)
       IN  /\ issues2' = r.issues
           /\ stats2' = r.stats
    /\ pc' = "done"
    /\ UNCHANGED <<apps, deps, target_waves, waves, ncall, changed, iters, idxmap, bi, di, changed_local, it, pre, waves_csv, issues, stats, cw>>

Next ==
    \/ BuildWaves
    \/ CallEnforce
    \/ BeginPass
    \/ Rule1Step
    \/ DepStep
    \/ Rule2Step
    \/ EnsureSlotsStep
    \/ EndLoop
    \/ FixBegin
    \/ FixStep
    \/ FixEnd
    \/ Sanitize
    \/ Equalize
    \/ ReturnFirst
    \/ ReturnSecond
    \/ Validate
    \/ ValidateAgain

Spec == Init /\ [][Next]_vars

---------------------------------------------------------------------------
(* The Sanitizer and the Equalizer on tables of up to MaxTotal base          *)
(* applications. The community file lists no application, so the           *)
(* Distributor returns empty waves and one pass of each repair loop         *)
(* changes nothing: this is the state in which sanitize_waves is called.    *)

ScorePattern(s) == [i \in 1..(MaxTotal + 1) |-> <<<<5, 9, 7, 8>>[((i * s) % 4) + 1], <<5, 9, 7, 8>>[((i * (s + 1)) % 4) + 1]>>]

EqualizerTables == {AppTable(k, ScorePattern(s)) : k \in 0..MaxTotal, s \in 1..2}

EqualizerInit ==
    /\ apps \in EqualizerTables
    /\ target_waves \in WaveCounts
    /\ deps = <<>>
    /\ waves = build_waves_for_algo(<<>>)
    /\ pc = "sanitize"
    /\ ncall = 1
    /\ changed = FALSE
    /\ iters = 1
    /\ idxmap = wave_index_map(waves)
    /\ bi = Cardinality(base_ids)
    /\ di = 0
    /\ changed_local = FALSE
    /\ it = 1
    /\ pre = waves
    /\ waves_csv = NoWaves
    /\ issues = <<>>
    /\ stats = <<>>
    /\ issues2 = <<>>
    /\ stats2 = <<>>
    /\ cw = NoCall

EqualizerNext == Sanitize \/ Equalize

SpecEqualizer == EqualizerInit /\ [][EqualizerNext]_vars

---------------------------------------------------------------------------
(* The script on a table whose base applications have a prod instance only *)
(* (the sequencing rule needs both instances, so it leaves such a table    *)
(* alone), with up to MaxProdOnlyDeps dependency rows and three waves.     *)

RECURSIVE ProdOnlyTable(_, _)
ProdOnlyTable(k, bcp) == IF k = 0 THEN <<>> ELSE Append(ProdOnlyTable(k - 1, bcp), AppRow(k, "prod", bcp[k]))

ProdOnlyTables == {ProdOnlyTable(MaxProdOnly, bcp) : bcp \in [1..MaxProdOnly -> {5, 8}]}

ProdOnlyInit ==
    /\ apps \in ProdOnlyTables
    /\ target_waves = MaxWaves
    /\ deps \in SeqsUpTo(AppDepRows(apps), MaxProdOnlyDeps)
    /\ waves = NoWaves
    /\ pc = "build"
    /\ ncall = 1
    /\ changed = FALSE
    /\ iters = 0
    /\ idxmap = <<>>
    /\ bi = 0
    /\ di = 0
    /\ changed_local = FALSE
    /\ it = 0
    /\ pre = NoWaves
    /\ waves_csv = NoWaves
    /\ issues = <<>>
    /\ stats = <<>>
    /\ issues2 = <<>>
    /\ stats2 = <<>>
    /\ cw = NoCall

SpecProdOnly == ProdOnlyInit /\ [][Next]_vars

---------------------------------------------------------------------------
(* The Validator on its own: validate_waves called, twice, on an assignment *)
(* that lists every instance of the table in one wave of its environment    *)
(* or in none (NOT_FOUND).                                                  *)

ValidatorTables == {AppTable(k, ScorePattern(1)) : k \in 0..MaxBases}

PlacedWaves(env, place) ==
    LET at(i) == SelectSeq(all_env_apps(env), LAMBDA a : place[a] = i)
    IN  SubSeq([i \in 1..target_waves |-> at(i - 1)], 1, target_waves)

ValidatorInit ==
    /\ apps \in ValidatorTables
    /\ target_waves \in WaveCounts
    /\ deps = <<>>
    /\ \E place \in [apps_list -> (0..(target_waves - 1)) \cup {NOT_FOUND}] :
           waves = [nonprod |-> PlacedWaves("nonprod", place), prod |-> PlacedWaves("prod", place)]
    /\ pc = "validate"
    /\ ncall = 2
    /\ changed = FALSE
    /\ iters = 0
    /\ idxmap = <<>>
    /\ bi = 0
    /\ di = 0
    /\ changed_local = FALSE
    /\ it = 0
    /\ pre = NoWaves
    /\ waves_csv = NoWaves
    /\ issues = <<>>
    /\ stats = <<>>
    /\ issues2 = <<>>
    /\ stats2 = <<>>
    /\ cw = NoCall

ValidatorNext == Validate \/ ValidateAgain

SpecValidator == ValidatorInit /\ [][ValidatorNext]_vars

---------------------------------------------------------------------------
(* The Wave Distributor on its own: one call of clusters_to_waves on a      *)
(* community file whose communities list, in any order, up to MaxMembers    *)
(* nodes of the graph: instances of the table, the server, the unlisted id. *)

DistTables == {AppTable(k, ScorePattern(1)) : k \in 0..MaxDistBases}

MemberLists(pool) == UNION {Perms(T) : T \in {T \in SUBSET pool : Cardinality(T) <= MaxMembers}}

ClusterFiles(pool) ==
    {<<SubSeq(x[1], 1, x[2]), SubSeq(x[1], x[2] + 1, x[3]), SubSeq(x[1], x[3] + 1, Len(x[1]))>> :
        x \in {y \in MemberLists(pool) \X (0..MaxMembers) \X (0..MaxMembers) : y[2] <= y[3] /\ y[3] <= Len(y[1])}}

DistributorInit ==
    /\ apps \in DistTables
    /\ target_waves \in WaveCounts
    /\ deps = <<>>
    /\ waves = NoWaves
    /\ pc = "distribute"
    /\ ncall = 1
    /\ changed = FALSE
    /\ iters = 0
    /\ idxmap = <<>>
    /\ bi = 0
    /\ di = 0
    /\ changed_local = FALSE
    /\ it = 0
    /\ pre = NoWaves
    /\ waves_csv = NoWaves
    /\ issues = <<>>
    /\ stats = <<>>
    /\ issues2 = <<>>
    /\ stats2 = <<>>
    /\ \E clusters \in ClusterFiles(apps_list \cup {SERVER, UNLISTED}) : \E e \in 1..Len(ENVS) :
           cw = [state |-> "called", clusters |-> clusters, env |-> ENVS[e]]

DistributorReturn ==
    /\ pc = "distribute"
    /\ cw.state = "called"
    /\ cw' = [state |-> "returned", clusters |-> cw.clusters, env |-> cw.env,
              result |-> clusters_to_waves(cw.clusters, cw.env, target_waves)]
    /\ UNCHANGED <<apps, deps, target_waves, waves, pc, ncall, changed, iters, idxmap, bi, di, changed_local, it, pre, waves_csv, issues, stats, issues2, stats2>>

DistributorNext == DistributorReturn

SpecDistributor == DistributorInit /\ [][DistributorNext]_vars

---------------------------------------------------------------------------
(* Vocabulary of the properties *)

EnvApps(env) == {apps[r].app_instance_id : r \in {q \in 1..Len(apps) : apps[q].env = env}}

Entries(ws, env) == UNION {{<<i, k>> : k \in 1..Len(ws[env][i])} : i \in 1..Len(ws[env])}

Occurrences(ws, env, a) == Cardinality({x \in Entries(ws, env) : ws[env][x[1]][x[2]] = a})

IdsOf(ws, env) == {ws[env][x[1]][x[2]] : x \in Entries(ws, env)}

OtherEnv(env) == IF env = "prod" THEN "nonprod" ELSE "prod"

ExactlyOnce(ws) ==
    \A e \in 1..Len(ENVS) :
        /\ \A a \in EnvApps(ENVS[e]) : Occurrences(ws, ENVS[e], a) = 1
        /\ IdsOf(ws, ENVS[e]) \subseteq EnvApps(ENVS[e])
        /\ \A a \in IdsOf(ws, ENVS[e]) : EndsWith(a, "-" \o ENVS[e])

HasDuplicate(ws) == \E e \in 1..Len(ENVS) : \E a \in IdsOf(ws, ENVS[e]) : Occurrences(ws, ENVS[e], a) > 1

HasDuplicateInOneWave(ws) ==
    \E e \in 1..Len(ENVS) : \E i \in 1..Len(ws[ENVS[e]]) :
        \E k \in 1..Len(ws[ENVS[e]][i]) : \E j \in 1..(k - 1) : ws[ENVS[e]][i][j] = ws[ENVS[e]][i][k]

HasForeignId(ws) == \E e \in 1..Len(ENVS) : \E a \in IdsOf(ws, ENVS[e]) : ~EndsWith(a, "-" \o ENVS[e])

HasMissingApp(ws) == \E a \in apps_list : a \notin IdsOf(ws, "nonprod") \cup IdsOf(ws, "prod")

---------------------------------------------------------------------------
(* C1: when enforce_constraints returns, every environment's waves hold     *)
(* exactly the application instances of the table whose id ends in that    *)
(* environment's suffix, each one once, and no other id.                   *)
C1_ExactlyOnceAfterPipeline == pc = "return" => ExactlyOnce(waves)

C1_Witness ==
    /\ pc = "return"
    /\ Len(apps) >= 4
    /\ HasDuplicate(pre) /\ HasForeignId(pre) /\ HasMissingApp(pre)

(* C2: when enforce_constraints returns, each environment has exactly       *)
(* target_waves waves, whatever the number of its applications: none, or   *)
(* fewer than there are waves (the surplus waves are then empty).          *)
C2_WaveCountAfterPipeline ==
    pc = "return" => \A e \in 1..Len(ENVS) : Len(waves[ENVS[e]]) = target_waves

C2_Witness ==
    /\ pc = "return"
    /\ target_waves = TARGET_WAVES_PER_ENV
    /\ Cardinality(EnvApps("prod")) \in 1..(target_waves - 1)
    /\ Len(waves["prod"]) = target_waves
    /\ waves["prod"][target_waves] = <<>>

WaveSizes(ws, env) == [i \in 1..Len(ws[env]) |-> Len(ws[env][i])]

CeilDiv(a, b) == (a + b - 1) \div b

(* C3: after the Equalizer, in an environment of `total` applications the   *)
(* first (total mod N) of the N waves have floor(total/N)+1 applications    *)
(* and the others floor(total/N); so (total mod N) waves have the size      *)
(* ceil(total/N) when total mod N > 0, two sizes differ by at most 1, 40    *)
(* applications in 8 waves give 5 each and 42 give 6,6,5,5,5,5,5,5.         *)
C3_EqualizerSizes ==
    pc = "return" =>
        \A e \in 1..Len(ENVS) :
            LET total == Cardinality(EnvApps(ENVS[e]))
                N == target_waves
                size == WaveSizes(waves, ENVS[e])
            IN  /\ Len(size) = N
                /\ \A i \in 1..N : size[i] = (total \div N) + (IF i <= total % N THEN 1 ELSE 0)
                /\ total % N > 0 => Cardinality({i \in 1..N : size[i] = CeilDiv(total, N)}) = total % N
                /\ \A i, j \in 1..N : size[i] - size[j] <= 1
                /\ (total = 40 /\ N = 8) => size = <<5, 5, 5, 5, 5, 5, 5, 5>>
                /\ (total = 42 /\ N = 8) => size = <<6, 6, 5, 5, 5, 5, 5, 5>>

C3_Witness ==
    /\ pc = "return"
    /\ target_waves = 8
    /\ Cardinality(EnvApps("prod")) = 42
    /\ WaveSizes(waves, "prod") = <<6, 6, 5, 5, 5, 5, 5, 5>>

RowOf(a) == CHOOSE r \in 1..Len(apps) : apps[r].app_instance_id = a

\* The number of applications of a's environment that come before a when the
\* environment is ordered by descending BCP score, table order breaking ties.
RankOf(a, env) ==
    Cardinality({b \in EnvApps(env) :
        \/ apps[RowOf(b)].BCP_score > apps[RowOf(a)].BCP_score
        \/ apps[RowOf(b)].BCP_score = apps[RowOf(a)].BCP_score /\ RowOf(b) < RowOf(a)})

\* The assignment as a function of the application table and the wave count
\* only: wave i of N holds the applications of ranks first(i) .. first(i+1)-1.
TableWaves(env) ==
    LET total == Cardinality(EnvApps(env))
        N == target_waves
        first(i) == (i - 1) * (total \div N) + (IF i - 1 < total % N THEN i - 1 ELSE total % N)
    IN  [i \in 1..N |-> [j \in 1..(first(i + 1) - first(i)) |->
            CHOOSE a \in EnvApps(env) : RankOf(a, env) = first(i) + j - 1]]

(* C4: the assignment enforce_constraints returns is determined by the      *)
(* application table and the wave count: whatever the communities and the   *)
(* dependency table were, it is TableWaves; and the second call, made on    *)
(* the first call's output, returns that same output.                       *)
C4_OutputFromTableAlone ==
    pc = "return" =>
        /\ waves = [nonprod |-> TableWaves("nonprod"), prod |-> TableWaves("prod")]
        /\ ncall = 2 => waves = waves_csv

C4_Witness ==
    /\ pc = "return"
    /\ ncall = 2
    /\ deps # <<>>
    /\ Len(apps) >= 4
    /\ pre # waves_csv
    /\ waves = waves_csv

IssueTypes(list) == {list[k].type : k \in 1..Len(list)}

NumBases == Cardinality(base_ids)

PassLen == NumBases + Len(app_deps) + 3

FixLen == NumBases + 1

StepsToFixEnd == (MaxIt - it) * FixLen + 3

StepsToEndLoop == (MaxIters - iters) * PassLen + 1 + MaxIt * FixLen + 3

CallLen == 1 + MaxIters * PassLen + 1 + MaxIt * FixLen + 3

StepsInCall ==
    CASE pc = "enforce" -> CallLen
      [] pc = "loop" -> StepsToEndLoop
      [] pc = "rule1" -> (NumBases - bi) + Len(app_deps) + 2 + StepsToEndLoop
      [] pc = "deps" -> (Len(app_deps) - di) + 2 + StepsToEndLoop
      [] pc = "rule2" -> 2 + StepsToEndLoop
      [] pc = "slots" -> 1 + StepsToEndLoop
      [] pc = "fixloop" -> StepsToFixEnd
      [] pc = "fix" -> (NumBases - bi) + StepsToFixEnd
      [] pc = "sanitize" -> 2
      [] pc = "equalize" -> 1
      [] pc = "return" -> 0

StepsLeft ==
    CASE pc = "build" -> 1 + CallLen + 1 + CallLen + 3
      [] pc = "validate" -> 2
      [] pc = "validated" -> 1
      [] pc = "done" -> 0
      [] OTHER -> StepsInCall + (IF ncall = 1 THEN 1 + CallLen + 3 ELSE 3)

(* C6: the main repair loop makes at most 40 passes and the secondary       *)
(* correction at most 40 iterations, also when a rule changed something in  *)
(* every pass; a loop stopped by its cap hands over to the next stage       *)
(* instead of failing; and the script terminates: every step lowers         *)
(* StepsLeft, a natural number.                                             *)
C6_RepairTerminates ==
    /\ [](iters <= MaxIters /\ it <= MaxIt)
    /\ []((pc = "loop" /\ iters = MaxIters /\ changed) => ENABLED EndLoop)
    /\ []((pc = "fixloop" /\ it = MaxIt /\ changed_local) => ENABLED FixEnd)
    /\ [](StepsLeft \in Nat)
    /\ [][StepsLeft' < StepsLeft]_vars

C6_Witness ==
    /\ pc = "sanitize"
    /\ iters = MaxIters /\ changed
    /\ it = MaxIt /\ changed_local

\* The instances of a base application by environment, told apart by the
\* "-nonprod" and "-prod" suffixes as validate_waves tells them apart.
NonprodOf(instances) == SelectSeq(instances, LAMBDA i : EndsWith(i, "-nonprod"))

ProdOf(instances) == SelectSeq(instances, LAMBDA i : EndsWith(i, "-prod"))

\* Rule 1 is about to act on the base application the loop has reached, and
\* that application's earliest nonprod wave is not the last wave.
Rule1Acts ==
    /\ pc = "rule1"
    /\ Rule1(waves, idxmap, base_groups[bi + 1].instances).changed
    /\ MinIdx(idxmap, rule1_nonprod(base_groups[bi + 1].instances)) < target_waves - 1

\* In assignment ws every prod instance has a wave index greater than the
\* earliest wave index of the nonprod instances, by the index map.
ProdAfterNonprod(ws, instances) ==
    LET m == wave_index_map(ws)
    IN  \A k \in 1..Len(ProdOf(instances)) :
            IdxOf(m, ProdOf(instances)[k]) > MinIdx(m, NonprodOf(instances))

\* The indexes of the waves of a list that hold id a.
Holding(wlist, a) == {i \in 0..(Len(wlist) - 1) : Contains(wlist[i + 1], a)}

(* C7: whenever rule 1 acts on a base application whose earliest nonprod    *)
(* wave index is below the last wave, afterwards every prod instance of     *)
(* that base application has a wave index greater than the earliest         *)
(* nonprod wave index; so with both instances in wave 0 of 8 the prod       *)
(* instance ends at least one wave after the nonprod instance.              *)
C7_ProdAfterNonprod ==
    [][Rule1Acts => ProdAfterNonprod(waves', base_groups[bi + 1].instances)]_vars

\* Rule 1 has just acted for the second time on the only base application,
\* of BCP 9, in 8 waves: the prod instance is in prod wave 2 only, next to a
\* copy of the nonprod id, and the nonprod instance is in nonprod wave 3 only.
C7_Witness ==
    /\ pc = "rule2" /\ iters = 2 /\ changed
    /\ target_waves = 8
    /\ Len(apps) = 2
    /\ Holding(waves["prod"], "APP_001-prod") = {2}
    /\ Holding(waves["prod"], "APP_001-nonprod") = {2}
    /\ Holding(waves["nonprod"], "APP_001-nonprod") = {3}
    /\ ~ProdAfterNonprod(waves, base_groups[1].instances)

\* The middle wave index in closed form.
MiddleIndex(n) == ((n \div 4) + CeilDiv(3 * n, 4) - 1) \div 2

MissionCritical(env, ws) == {a \in IdsOf(ws, env) \cap apps_list : BCPOf(a) >= 9}

EdgeWaves(n) == {0, n - 1}

(* C8: a step of the mission-critical placement rule leaves, in every       *)
(* environment with N > 2 waves, no application of BCP >= 9 in wave 0 or    *)
(* in wave N-1; each one it found there is then in the middle wave, whose   *)
(* index (floor(0.25*N) + ceil(0.75*N) - 1) div 2 is strictly between 0     *)
(* and N-1 for every N > 2 and is 3 for N = 8.                              *)
C8_MissionCriticalPlacement ==
    [][pc = "rule2" =>
        /\ \A n \in 3..MaxMiddleN : Middle(n) = MiddleIndex(n) /\ 0 < Middle(n) /\ Middle(n) < n - 1
        /\ Middle(8) = 3
        /\ \A e \in 1..Len(ENVS) :
            LET env == ENVS[e]
                N == Len(waves[env])
            IN  N > 2 =>
                /\ Len(waves'[env]) = N
                /\ \A a \in MissionCritical(env, waves') :
                        Holding(waves'[env], a) \cap EdgeWaves(N) = {}
                /\ \A a \in MissionCritical(env, waves) :
                        Holding(waves[env], a) \cap EdgeWaves(N) # {} =>
                            MiddleIndex(N) \in Holding(waves'[env], a)]_vars

C8_Witness ==
    /\ pc = "slots"
    /\ target_waves = 8
    /\ changed
    /\ \E a \in apps_list :
        /\ BCPOf(a) = 9
        /\ 0 \in Holding(pre["nonprod"], a)
        /\ Holding(waves["nonprod"], a) = {3}

---------------------------------------------------------------------------
KeptOf(members, env) == SelectSeq(members, LAMBDA m : m \in EnvApps(env))

IsRunOf(part, whole) == \E off \in 0..(Len(whole) - Len(part)) : SubSeq(whole, off + 1, off + Len(part)) = part

(* C9: clusters_to_waves returns exactly target_waves waves; read in wave   *)
(* order they are the communities' members read in file order, keeping     *)
(* only the instances the table lists for the requested environment, so    *)
(* every community's kept members form one run in their original order;    *)
(* the first (total mod N) waves hold one element more than the others;    *)
(* with nothing kept, all the waves are empty.                             *)
C9_DistributorContract ==
    cw.state = "returned" =>
        LET n == target_waves
            kept == KeptOf(Flatten(cw.clusters), cw.env)
            total == Len(kept)
        IN  /\ Len(cw.result) = n
            /\ Flatten(cw.result) = kept
            /\ \A c \in 1..Len(cw.clusters) : IsRunOf(KeptOf(cw.clusters[c], cw.env), Flatten(cw.result))
            /\ \A i \in 1..n : Len(cw.result[i]) = (total \div n) + (IF i <= total % n THEN 1 ELSE 0)
            /\ total = 0 => \A i \in 1..n : cw.result[i] = <<>>

C9_Witness ==
    /\ cw.state = "returned"
    /\ cw.env = "prod"
    /\ target_waves = 2
    /\ cw.clusters = <<<<"APP_002-prod", UNLISTED>>, <<>>, <<"APP_003-prod", "APP_001-prod">>>>
    /\ Len(apps) = 6
    /\ cw.result = <<<<"APP_002-prod", "APP_003-prod">>, <<"APP_001-prod">>>>

---------------------------------------------------------------------------
HasDuplicateAcrossWaves(ws) ==
    \E e \in 1..Len(ENVS) : \E i \in 1..Len(ws[ENVS[e]]) : \E j \in 1..(i - 1) :
        \E a \in apps_list : Contains(ws[ENVS[e]][i], a) /\ Contains(ws[ENVS[e]][j], a)

(* C10: when sanitize_waves has run, whatever the repair loops left          *)
(* (duplicates within a wave or across waves, ids in the other              *)
(* environment's waves, instances in no wave), every instance of the table  *)
(* is in exactly one wave of its own environment, there are target_waves    *)
(* waves per environment, and no wave holds an id of the other environment. *)
C10_SanitizerExactlyOnce ==
    pc = "equalize" =>
        \A e \in 1..Len(ENVS) :
            LET env == ENVS[e]
            IN  /\ \A a \in EnvApps(env) : Cardinality(Holding(waves[env], a)) = 1
                /\ \A a \in EnvApps(env) : Occurrences(waves, env, a) = 1
                /\ IdsOf(waves, env) \cap EnvApps(OtherEnv(env)) = {}
                /\ IdsOf(waves, env) \subseteq EnvApps(env)

C10_Witness ==
    /\ pc = "equalize"
    /\ HasDuplicateInOneWave(pre)
    /\ HasDuplicateAcrossWaves(pre)
    /\ HasForeignId(pre)
    /\ HasMissingApp(pre)

---------------------------------------------------------------------------
ScoreOf(a) == apps[RowOf(a)].BCP_score

(* C11: after the Equalizer, an environment's waves read in wave order list *)
(* every application of the environment once, by descending BCP score, and  *)
(* applications of equal score in the order of the application table; so    *)
(* no application in a wave has a lower score than one in a later wave.     *)
C11_EqualizerOrder ==
    pc = "return" =>
        \A e \in 1..Len(ENVS) :
            LET env == ENVS[e]
                flat == Flatten(waves[env])
            IN  /\ Len(flat) = Cardinality(EnvApps(env))
                /\ {flat[k] : k \in 1..Len(flat)} = EnvApps(env)
                /\ \A k \in 1..Len(flat) : \A l \in (k + 1)..Len(flat) :
                       \/ ScoreOf(flat[k]) > ScoreOf(flat[l])
                       \/ ScoreOf(flat[k]) = ScoreOf(flat[l]) /\ RowOf(flat[k]) < RowOf(flat[l])
                /\ \A i \in 1..Len(waves[env]) : \A j \in (i + 1)..Len(waves[env]) :
                       \A k \in 1..Len(waves[env][i]) : \A l \in 1..Len(waves[env][j]) :
                           ScoreOf(waves[env][i][k]) >= ScoreOf(waves[env][j][l])

C11_Witness ==
    /\ pc = "return"
    /\ target_waves = 3
    /\ Cardinality(EnvApps("prod")) = 7
    /\ \E k \in 1..2 : ScoreOf(waves["prod"][1][k]) = ScoreOf(waves["prod"][1][k + 1])
                       /\ RowOf(waves["prod"][1][k]) < RowOf(waves["prod"][1][k + 1])
    /\ ScoreOf(waves["prod"][1][1]) > ScoreOf(waves["prod"][3][2])

---------------------------------------------------------------------------
(* C12: in the assignment enforce_constraints returns, no application with  *)
(* BCP score >= 9 is in the first or in the last wave of its environment.   *)
C12_NoMissionCriticalAtEdges ==
    pc = "return" =>
        \A e \in 1..Len(ENVS) :
            \A a \in MissionCritical(ENVS[e], waves) :
                Holding(waves[ENVS[e]], a) \cap EdgeWaves(Len(waves[ENVS[e]])) = {}

C12_Witness ==
    /\ pc = "return"
    /\ target_waves = 8
    /\ Len(apps) = 2
    /\ ScoreOf("APP_001-prod") = 9
    /\ Holding(pre["prod"], "APP_001-prod") # {}
    /\ Holding(pre["prod"], "APP_001-prod") \cap EdgeWaves(8) = {}
    /\ Holding(waves["prod"], "APP_001-prod") = {0}

---------------------------------------------------------------------------
\* The earliest wave index at which assignment ws holds one of the ids, in
\* either environment's waves; 999 when it holds none of them.
EarliestWave(ws, ids) ==
    LET held == UNION {Holding(ws["nonprod"], ids[k]) \cup Holding(ws["prod"], ids[k]) : k \in 1..Len(ids)}
    IN  IF held = {} THEN NOT_FOUND ELSE CHOOSE i \in held : \A j \in held : i <= j

BothEnvs == {g \in 1..Len(base_groups) :
                NonprodOf(base_groups[g].instances) # <<>> /\ ProdOf(base_groups[g].instances) # <<>>}

(* C13: in the assignment enforce_constraints returns, for every base       *)
(* application with a nonprod and a prod instance the earliest wave index   *)
(* holding a nonprod instance is strictly less than the earliest wave       *)
(* index holding a prod instance.                                           *)
C13_NonprodBeforeProd ==
    pc = "return" =>
        \A g \in BothEnvs :
            EarliestWave(waves, NonprodOf(base_groups[g].instances))
                < EarliestWave(waves, ProdOf(base_groups[g].instances))

C13_Witness ==
    /\ pc = "return"
    /\ target_waves = 8
    /\ Len(apps) = 4
    /\ ScoreOf("APP_001-prod") = 7 /\ ScoreOf("APP_001-nonprod") = 7
    /\ ScoreOf("APP_002-prod") = 5 /\ ScoreOf("APP_002-nonprod") = 5
    /\ waves["nonprod"][1] = <<"APP_001-nonprod">> /\ waves["prod"][1] = <<"APP_001-prod">>
    /\ waves["nonprod"][2] = <<"APP_002-nonprod">> /\ waves["prod"][2] = <<"APP_002-prod">>

---------------------------------------------------------------------------
\* Assignment ws has target_waves waves per environment, lists every id once
\* and in its own environment's waves only, and meets the four rules by the
\* validator's own tests: sequencing, colocation and locality of the
\* dependency rows, mission-critical placement.
Satisfied(ws) ==
    /\ CountIssues(ws) = <<>>
    /\ ~HasDuplicate(ws) /\ ~HasForeignId(ws)
    /\ OrderIssues(wave_index_map(ws)) = <<>>
    /\ DependencyIssues(wave_index_map(ws)) = <<>>
    /\ EdgeWaveIssues(ws) = <<>>

\* A pass of the main loop has just ended; `pre` is the assignment it began with.
PassEnded == pc = "loop" /\ iters >= 1

(* C14: a repair pass that begins on an assignment with target_waves waves  *)
(* per environment that satisfies sequencing, colocation, locality and      *)
(* mission-critical placement changes no wave and leaves the changed flag   *)
(* false, so that the main loop stops after that pass.                      *)
C14_IdempotentWhenSatisfied ==
    (PassEnded /\ Satisfied(pre)) => (waves = pre /\ ~changed /\ ENABLED EndLoop)

C14_Witness ==
    /\ PassEnded
    /\ iters = 1
    /\ target_waves = 8
    /\ Satisfied(pre)
    /\ pre["nonprod"][1] = <<"APP_001-nonprod">>
    /\ pre["prod"] = EmptyWaves(8)
    /\ waves["prod"][2] = <<"APP_001-nonprod">>
    /\ changed

---------------------------------------------------------------------------
\* The main loop has just been left; `pre` is still the assignment its last
\* pass began with.
LoopLeft == pc = "fixloop" /\ it = 0

(* C15: a repair pass that modifies the assignment sets the changed flag;   *)
(* so the main loop leaves before its cap of 40 passes only after a pass    *)
(* that left every wave of every environment as it was when the pass began. *)
C15_ChangeSetsFlag ==
    /\ (PassEnded /\ waves # pre) => changed
    /\ (LoopLeft /\ 1 <= iters /\ iters < MaxIters) => waves = pre

C15_Witness ==
    /\ PassEnded
    /\ iters = 2
    /\ ~changed
    /\ pre["prod"] = <<<<"APP_001-prod", "APP_002-prod">>, <<>>, <<"APP_003-prod", "APP_002-prod">>>>
    /\ waves["prod"] = <<<<"APP_001-prod", "APP_002-prod">>, <<>>, <<"APP_003-prod">>>>

---------------------------------------------------------------------------
\* An iteration of fix_nonprod_prod_order has just ended; `pre` is the
\* assignment it began with.
FixPassEnded == pc = "fixloop" /\ it >= 1

(* C16: a repair pass, and an iteration of the secondary sequencing         *)
(* correction, that begins with no id of the other environment in any wave  *)
(* ends with none: the sequencing repair moves prod instances among prod    *)
(* waves and nonprod instances among nonprod waves only.                    *)
C16_ExclusivityKept ==
    ((PassEnded \/ FixPassEnded) /\ ~HasForeignId(pre)) => ~HasForeignId(waves)

C16_Witness ==
    /\ PassEnded
    /\ iters = 1
    /\ target_waves = 8
    /\ ~HasForeignId(pre) /\ ~HasMissingApp(pre) /\ ~HasDuplicate(pre)
    /\ pre["prod"][1] = <<"APP_001-prod">>
    /\ waves["prod"][2] = <<"APP_001-prod", "APP_001-nonprod">>
    /\ waves["nonprod"][1] = <<"APP_001-nonprod">>

---------------------------------------------------------------------------
\* The dependency loop has reached a row whose source and target are in the
\* index map in the same environment and in different waves, the source with
\* BCP >= 8: the colocation rule handles it.
ColocationActs ==
    /\ pc = "deps"
    /\ LET r == app_deps[di + 1]
       IN  /\ r.source \in DOMAIN idxmap /\ r.target \in DOMAIN idxmap
           /\ idxmap[r.source][1] = idxmap[r.target][1]
           /\ idxmap[r.source][2] # idxmap[r.target][2]
           /\ BCPOf(r.source) >= 8

\* In the waves of env, the target is in exactly one wave, and that wave
\* holds the source.
Colocated(ws, env, src, tgt) ==
    /\ Cardinality(Holding(ws[env], tgt)) = 1
    /\ Holding(ws[env], tgt) \subseteq Holding(ws[env], src)

(* C17: when the colocation rule handles a dependency row whose source has  *)
(* BCP >= 8 and whose target is in another wave of the same environment,    *)
(* right afterwards the target is in the wave that holds the source and in  *)
(* no other wave, also when an earlier row of the pass has moved either.    *)
C17_TargetJoinsSource ==
    [][ColocationActs =>
          Colocated(waves', idxmap[app_deps[di + 1].source][1], app_deps[di + 1].source, app_deps[di + 1].target)]_vars

C17_Witness ==
    /\ pc = "rule2"
    /\ iters = 1
    /\ di = 2
    /\ deps = <<DepRow("APP_001-prod", "APP_002-prod", 5), DepRow("APP_003-prod", "APP_002-prod", 5)>>
    /\ BCPOf("APP_003-prod") = 8
    /\ pre["prod"] = <<<<"APP_001-prod">>, <<"APP_002-prod">>, <<"APP_003-prod">>>>
    /\ waves["prod"] = <<<<"APP_001-prod", "APP_002-prod">>, <<>>, <<"APP_003-prod", "APP_002-prod">>>>

---------------------------------------------------------------------------
\* The dependency loop has reached a row for which the colocation rule or
\* the locality rule relocates the target, and the wave the index map
\* records for the target does not hold it.
AbsentTargetHandled ==
    /\ pc = "deps"
    /\ LET r == app_deps[di + 1]
           s_idx == idxmap[r.source][2]
           t_idx == idxmap[r.target][2]
       IN  /\ r.source \in DOMAIN idxmap /\ r.target \in DOMAIN idxmap
           /\ idxmap[r.source][1] = idxmap[r.target][1]
           /\ \/ BCPOf(r.source) >= 8 /\ s_idx # t_idx
              \/ BCPOf(r.source) >= 7 /\ r.weight > 7 /\ ~(t_idx = s_idx \/ t_idx = s_idx - 1)
           /\ ~Contains(waves[idxmap[r.target][1]][t_idx + 1], r.target)

(* C18: the relocation of an application that is not in the wave the index  *)
(* map of the pass records for it changes no wave of any environment.       *)
C18_AbsentRelocationIsNoOp == [][AbsentTargetHandled => waves' = waves]_vars

C18_Witness ==
    /\ pc = "rule2"
    /\ iters = 1
    /\ di = 2
    /\ deps = <<DepRow("APP_001-prod", "APP_003-prod", 5), DepRow("APP_002-prod", "APP_003-prod", 5)>>
    /\ BCPOf("APP_001-prod") = 8 /\ BCPOf("APP_002-prod") = 8
    /\ pre["prod"] = <<<<"APP_001-prod">>, <<"APP_002-prod">>, <<"APP_003-prod">>>>
    /\ waves["prod"] = <<<<"APP_001-prod", "APP_003-prod">>, <<"APP_002-prod", "APP_003-prod">>, <<>>>>

---------------------------------------------------------------------------
\* The sequencing repair of one main-loop pass: rule 1 applied to every base
\* application in turn, with the index map m of the start of the pass.
RECURSIVE SequencingSweep(_, _, _)
SequencingSweep(ws, m, g) ==
    IF g > Len(base_groups) THEN ws
    ELSE SequencingSweep(Rule1(ws, m, base_groups[g].instances).waves, m, g + 1)

(* C19: an iteration of fix_nonprod_prod_order leaves the assignment that   *)
(* the sequencing repair of a main-loop pass (rule 1) would leave when      *)
(* started on the same assignment.                                          *)
C19_FixIsRule1 ==
    FixPassEnded => waves = SequencingSweep(pre, wave_index_map(pre), 1)

C19_Witness ==
    /\ FixPassEnded
    /\ it = 1
    /\ target_waves = 3
    /\ pre = [nonprod |-> <<<<>>, <<"APP_001-nonprod">>, <<>>>>, prod |-> <<<<>>, <<"APP_001-nonprod">>, <<>>>>]
    /\ waves = [nonprod |-> <<<<"APP_001-nonprod">>, <<>>, <<>>>>, prod |-> <<<<>>, <<"APP_001-nonprod">>, <<>>>>]
    /\ SequencingSweep(pre, wave_index_map(pre), 1)
           = [nonprod |-> <<<<>>, <<"APP_001-nonprod">>, <<>>>>, prod |-> <<<<>>, <<>>, <<"APP_001-nonprod">>>>]

---------------------------------------------------------------------------
\* The positions of the issues of one kind that validate_waves reported for
\* a base application.
IssuesFor(kind, base) == {k \in 1..Len(issues) : issues[k].type = kind /\ issues[k].base_app = base}

---------------------------------------------------------------------------
\* Some base application of the table has a nonprod instance listed in a wave
\* of the assignment.
NonprodAssigned(ws) ==
    \E r \in 1..Len(apps) :
        /\ EndsWith(apps[r].app_instance_id, "-nonprod")
        /\ \E e \in 1..2 : \E i \in 1..Len(ws[ENVS[e]]) : Contains(ws[ENVS[e]][i], apps[r].app_instance_id)

\* Rule 1 of the current pass has gone through every base application.
Rule1Done == pc \in {"deps", "rule2", "slots"} \/ PassEnded

(* C21: with two or more waves per environment, in every pass that begins   *)
(* with some base application's nonprod instance in a wave the sequencing   *)
(* repair sets the changed flag; the main loop is then left only after      *)
(* exactly 40 passes and the secondary sequencing correction only after     *)
(* exactly 40 iterations.                                                   *)
C21_AlwaysFortyPasses ==
    target_waves >= 2 =>
        /\ (Rule1Done /\ NonprodAssigned(pre)) => changed
        /\ (FixPassEnded /\ NonprodAssigned(pre)) => changed_local
        /\ (LoopLeft /\ (NonprodAssigned(pre) \/ NonprodAssigned(waves))) => iters = MaxIters
        /\ (pc = "sanitize" /\ NonprodAssigned(waves)) => (iters = MaxIters /\ it = MaxIt)

C21_Witness ==
    /\ pc = "sanitize"
    /\ ncall = 1
    /\ target_waves = 2
    /\ Len(apps) = 2
    /\ NonprodAssigned(waves)
    /\ Contains(waves["nonprod"][1], "APP_001-nonprod")
    /\ iters = MaxIters
    /\ it = MaxIt

---------------------------------------------------------------------------
\* The ids listed in at least one wave, over both environments together.
IdsPresent(ws) == ListedIn(ws["nonprod"]) \cup ListedIn(ws["prod"])

\* The ids the Sanitizer keeps when it cleans the waves of both environments
\* (the final value of `seen` at line 308), and the applications it then
\* hands to the round-robin redistribution (`missing`, line 312).
SeenAfterCleaning(ws) ==
    LET np == CleanWaves(PadWaves(ws["nonprod"], target_waves), "nonprod", {}, 1)
    IN  CleanWaves(PadWaves(ws["prod"], target_waves), "prod", np.seen, 1).seen

Redistributed(ws) == {a \in apps_list : a \notin SeenAfterCleaning(ws)}

(* C22: the Repair Engine never loses an application: after every repair    *)
(* pass and every iteration of the secondary sequencing correction the set  *)
(* of ids listed in at least one wave (both environments together) is what  *)
(* it was when the pass or iteration began; so the applications the         *)
(* Sanitizer redistributes round-robin are listed in no wave of its input,  *)
(* which lists the ids the Distributor's output listed.                     *)
C22_NoApplicationLost ==
    /\ (PassEnded \/ FixPassEnded) => IdsPresent(waves) = IdsPresent(pre)
    /\ pc = "sanitize" => Redistributed(waves) \cap IdsPresent(waves) = {}

C22_Witness ==
    /\ pc = "sanitize"
    /\ ncall = 1
    /\ target_waves = 3
    /\ Len(apps) = 4
    /\ Len(deps) > 0
    /\ Redistributed(waves) = {"APP_002-prod"}
    /\ Occurrences(waves, "nonprod", "APP_001-nonprod") > 1
    /\ IdsPresent(waves) = apps_list \ {"APP_002-prod"}

============================================================================
